---- MODULE Spec2Model ----
(***************************************************************************)
(* A model of cleanPlain.py: the tool that removes the plain qN.tex files  *)
(* from the 'questions' subfolders below a root, keeping qN_xm.tex and     *)
(* qN_soln.tex.                                                            *)
(*                                                                         *)
(* A file name is a sequence of characters (one-character strings; "LF"    *)
(* stands for the newline character and "U+0663" for ARABIC-INDIC DIGIT    *)
(* THREE).  A path is the sequence of the names below the file system      *)
(* root.  The disk is the set of directories and the set of files.         *)
(***************************************************************************)
EXTENDS Integers, Sequences, FiniteSets, TLC

VARIABLES
    disk_dirs,         \* the directories on disk (paths)
    disk_files,        \* the regular files on disk (paths)
    locked,            \* files whose unlink raises (e.g. PermissionError)
    scan_rev,          \* the order in which the OS lists a directory
    args,              \* the parsed command line of the current run
    pc,                \* "idle", "loop", "done" (main); "classify", "classified"
    dirs,              \* main: the sorted target directories not yet visited
    candidates,        \* main: the candidates of the current directory not yet handled
    total_deleted,     \* main: total_deleted
    total_candidates,  \* main: total_candidates
    out,               \* the lines printed by the current run
    files0,            \* the files on disk when the current run started
    attempts,          \* the paths on which the current run called unlink
    classified,        \* the directories the current run passed to find_candidate_deletions
    runs,              \* the number of runs started
    prev               \* what the previous run did

vars == <<disk_dirs, disk_files, locked, scan_rev, args, pc, dirs, candidates,
          total_deleted, total_candidates, out, files0, attempts, classified,
          runs, prev>>

----------------------------------------------------------------------------
(* Bounds *)

MaxRuns == 2

MaxQDirs == 2

MaxDigits == 2

MaxEntries == 2

----------------------------------------------------------------------------
(* Names *)

nA == <<"A">>

nB == <<"B">>

nSub == <<"s", "u", "b">>

nGit == <<".", "g", "i", "t">>

nVscode == <<".", "v", "s", "c", "o", "d", "e">>

nXmScripts == <<"x", "m", "S", "c", "r", "i", "p", "t", "s">>

nQuestions == <<"q", "u", "e", "s", "t", "i", "o", "n", "s">>

dotTex == <<".", "t", "e", "x">>

sufXm == <<"_", "x", "m">>

sufSoln == <<"_", "s", "o", "l", "n">>

IGNORE_DIRS == {nXmScripts, nVscode, nGit}

\* The code points of the characters, as str comparison uses them.
Ord ==
    "LF" :> 10 @@ "." :> 46 @@ "0" :> 48 @@ "1" :> 49 @@ "2" :> 50 @@ "3" :> 51 @@
    "7" :> 55 @@ "A" :> 65 @@ "B" :> 66 @@ "Q" :> 81 @@ "S" :> 83 @@ "_" :> 95 @@
    "a" :> 97 @@ "b" :> 98 @@ "c" :> 99 @@ "d" :> 100 @@ "e" :> 101 @@ "g" :> 103 @@
    "i" :> 105 @@ "l" :> 108 @@ "m" :> 109 @@ "n" :> 110 @@ "o" :> 111 @@ "p" :> 112 @@
    "q" :> 113 @@ "r" :> 114 @@ "s" :> 115 @@ "t" :> 116 @@ "u" :> 117 @@ "v" :> 118 @@
    "x" :> 120 @@ "U+0663" :> 1635

\* \d of a str pattern: the Unicode decimal digits (category Nd).
DecimalDigits == {"0", "1", "2", "3", "7", "U+0663"}

----------------------------------------------------------------------------
(* Regular expressions and glob patterns *)

\* The literal lit stands in s at position i.
Lit(s, i, lit) ==
    /\ i + Len(lit) - 1 <= Len(s)
    /\ \A k \in 1..Len(lit) : s[i + k - 1] = lit[k]

\* $ without re.MULTILINE: at the end, or just before a newline that ends the string.
EndAnchor(s, i) ==
    \/ i = Len(s) + 1
    \/ i = Len(s) /\ s[i] = "LF"

\* (\d+) taking the k characters from position i.
DigitRun(s, i, k) ==
    /\ k >= 1
    /\ i + k - 1 <= Len(s)
    /\ \A j \in i..(i + k - 1) : s[j] \in DecimalDigits

\* The pattern with \d* in place of \d+.
PLAIN_Q_REGEX_star(name) ==
    /\ Lit(name, 1, <<"q">>)
    /\ \E k \in 0..Len(name) :
          /\ k >= 1 => DigitRun(name, 2, k)
          /\ Lit(name, 2 + k, dotTex)
          /\ EndAnchor(name, 2 + k + Len(dotTex))

\* re.compile(r"^q(\d+)\.tex$").match(name)
PLAIN_Q_REGEX(name) ==
    /\ Lit(name, 1, <<"q">>)
    /\ \E k \in 1..Len(name) :
          /\ DigitRun(name, 2, k)
          /\ Lit(name, 2 + k, dotTex)
          /\ EndAnchor(name, 2 + k + Len(dotTex))

\* re.compile(r"^q(\d+)_(xm|soln)\.tex$").match(name)
PROTECTED_REGEX(name) ==
    /\ Lit(name, 1, <<"q">>)
    /\ \E k \in 1..Len(name) :
          /\ DigitRun(name, 2, k)
          /\ Lit(name, 2 + k, <<"_">>)
          /\ \E alt \in {<<"x", "m">>, <<"s", "o", "l", "n">>} :
                /\ Lit(name, 3 + k, alt)
                /\ Lit(name, 3 + k + Len(alt), dotTex)
                /\ EndAnchor(name, 3 + k + Len(alt) + Len(dotTex))

\* fnmatch of the pattern q*.tex: the whole name, * taking any characters.
GlobQStarTex(name) ==
    /\ Len(name) >= 1 + Len(dotTex)
    /\ Lit(name, 1, <<"q">>)
    /\ Lit(name, Len(name) - Len(dotTex) + 1, dotTex)

----------------------------------------------------------------------------
(* Paths and the disk *)

RootDir == <<>>

Roots == {RootDir}

Parent(p) == SubSeq(p, 1, Len(p) - 1)

Name(p) == p[Len(p)]

Entries == disk_dirs \cup disk_files

is_dir(p) == p \in disk_dirs

\* Path.iterdir: the entries directly inside d.
iterdir(d) == {p \in Entries : Len(p) = Len(d) + 1 /\ Parent(p) = d}

RECURSIVE rglob(_)
\* Path.rglob("*"): every entry below d, at any depth.
rglob(d) ==
    iterdir(d) \cup UNION {rglob(c) : c \in {e \in iterdir(d) : is_dir(e)}}

\* str.__lt__
StrLess(a, b) ==
    \E i \in 1..(Len(a) + 1) :
        /\ i <= Len(b)
        /\ \A j \in 1..(i - 1) : a[j] = b[j]
        /\ \/ i = Len(a) + 1
           \/ i <= Len(a) /\ Ord[a[i]] < Ord[b[i]]

\* PurePath.__lt__: the parts compared as tuples of strings.
PathLess(p, q) ==
    \E i \in 1..(Len(p) + 1) :
        /\ i <= Len(q)
        /\ \A j \in 1..(i - 1) : p[j] = q[j]
        /\ \/ i = Len(p) + 1
           \/ i <= Len(p) /\ StrLess(p[i], q[i])

\* s with x put behind the elements smaller than x; s is sorted.
Insert(s, x) ==
    LET k == Cardinality({i \in 1..Len(s) : PathLess(s[i], x)})
    IN  SubSeq(s, 1, k) \o <<x>> \o SubSeq(s, k + 1, Len(s))

RECURSIVE sorted(_)
\* sorted(dirs)
sorted(S) ==
    IF S = {} THEN <<>>
    ELSE LET x == CHOOSE y \in S : TRUE
         IN  Insert(sorted(S \ {x}), x)

Reverse(s) == [i \in 1..Len(s) |-> s[Len(s) + 1 - i]]

\* os.scandir: the entries of d in the order the file system lists them.
scandir(d) == IF scan_rev THEN Reverse(sorted(iterdir(d))) ELSE sorted(iterdir(d))

\* questions_dir.glob("q*.tex")
glob(d) == SelectSeq(scandir(d), LAMBDA p : GlobQStarTex(Name(p)))

\* The classifier without its two pattern tests.
find_candidate_deletions_unfiltered(questions_dir) == glob(questions_dir)

find_candidate_deletions(questions_dir) ==
    SelectSeq(glob(questions_dir),
              LAMBDA p : ~PROTECTED_REGEX(Name(p)) /\ PLAIN_Q_REGEX(Name(p)))

\* The collector descending whatever the flag says.
gather_target_dirs_deep(root, recursive) ==
    {d \in {e \in rglob(root) : is_dir(e)} : Name(d) \notin IGNORE_DIRS}

gather_target_dirs(root, recursive) ==
    LET ds == IF recursive THEN {d \in rglob(root) : is_dir(d)}
                           ELSE {d \in iterdir(root) : is_dir(d)}
    IN  {d \in ds : Name(d) \notin IGNORE_DIRS}

\* f.unlink() raises: f is a directory, may not be removed, or is not there.
UnlinkRaises(f) == f \in disk_dirs \/ f \in locked \/ f \notin disk_files

----------------------------------------------------------------------------
(* The trees the runs start from *)

fQ1 == <<"q", "1">> \o dotTex

fQ2 == <<"q", "2">> \o dotTex

fQ23 == <<"q", "2", "3">> \o dotTex

fQ7 == <<"q", "7">> \o dotTex

fQa == <<"q", "a">> \o dotTex

fQ1xm == <<"q", "1">> \o sufXm \o dotTex

fQ1soln == <<"q", "1">> \o sufSoln \o dotTex

Entry(name, kind) == [name |-> name, kind |-> kind]

\* What a questions directory may hold.
Content(c) ==
    CASE c = "Mixed"  -> {Entry(fQ1, "file"), Entry(fQ1soln, "file"),
                          Entry(fQ1xm, "file"), Entry(fQ2, "file")}
      [] c = "Kept"   -> {Entry(fQ1xm, "file"), Entry(fQa, "file")}
      [] c = "Fail"   -> {Entry(fQ1, "locked"), Entry(fQ23, "file"), Entry(fQ7, "dir")}

Contents == {"Mixed", "Kept", "Fail"}

\* The directories that may hold a questions directory: below root at depth one
\* and two, root itself, and directories with an ignored name on their path.
InnerHolders == {<<nA>>, <<nA, nB>>}

OuterHolders == {<<nGit, nSub>>, <<nXmScripts>>, <<nA, nVscode>>, RootDir}

Slots ==
    [holder : InnerHolders, content : Contents]
    \cup [holder : OuterHolders, content : {"Mixed"}]

Absent == [holder |-> RootDir, content |-> "Absent"]

Prefixes(p) == {SubSeq(p, 1, k) : k \in 0..Len(p)}

QDirOf(d) == d \o <<nQuestions>>

SlotEntries(s, kinds) ==
    {QDirOf(s.holder) \o <<e.name>> : e \in {x \in Content(s.content) : x.kind \in kinds}}

TreeDirs(chosen) ==
    {RootDir} \cup UNION {Prefixes(QDirOf(s.holder)) \cup SlotEntries(s, {"dir"}) : s \in chosen}

TreeFiles(chosen) == UNION {SlotEntries(s, {"file", "locked"}) : s \in chosen}

TreeLocked(chosen) == UNION {SlotEntries(s, {"locked"}) : s \in chosen}

NoArgs == [root |-> RootDir, dry_run |-> FALSE, recursive |-> FALSE, quiet |-> FALSE]

NoRun == [ran |-> FALSE, dry_run |-> FALSE, recursive |-> FALSE, root |-> RootDir,
          paths |-> <<>>, count |-> 0]

Init ==
    /\ \E pick \in [1..MaxQDirs -> Slots \cup {Absent}] :
          LET chosen == {pick[i] : i \in 1..MaxQDirs} \ {Absent}
          IN  /\ \A i, j \in 1..MaxQDirs :
                    (i < j /\ pick[i] # Absent) =>
                        /\ pick[j] # Absent
                        /\ PathLess(pick[i].holder, pick[j].holder)
              /\ disk_dirs = TreeDirs(chosen)
              /\ disk_files = TreeFiles(chosen)
              /\ locked = TreeLocked(chosen)
    /\ scan_rev \in BOOLEAN
    /\ args = NoArgs
    /\ pc = "idle"
    /\ dirs = <<>>
    /\ candidates = <<>>
    /\ total_deleted = 0
    /\ total_candidates = 0
    /\ out = <<>>
    /\ files0 = disk_files
    /\ attempts = <<>>
    /\ classified = <<>>
    /\ runs = 0
    /\ prev = NoRun

----------------------------------------------------------------------------
(* main *)

Line(tag, text, path, n) == [tag |-> tag, text |-> text, path |-> path, n |-> n]

\* The [INFO] lines main prints before it gathers the directories.
InfoLines(a) ==
    IF a.quiet THEN <<>>
    ELSE <<Line("INFO", "Root", a.root, 0)>>
         \o (IF a.recursive THEN <<Line("INFO", "Mode: recursive", <<>>, 0)>> ELSE <<>>)
         \o (IF a.dry_run
             THEN <<Line("INFO", "Dry-run: no files will be deleted", <<>>, 0)>>
             ELSE <<>>)

\* The summary counting the candidates in live mode too.
SummaryLine_candidates ==
    IF args.dry_run
    THEN Line("SUMMARY", "would be deleted", <<>>, total_candidates)
    ELSE Line("SUMMARY", "Deleted", <<>>, total_candidates)

SummaryLine ==
    IF args.dry_run
    THEN Line("SUMMARY", "would be deleted", <<>>, total_candidates)
    ELSE Line("SUMMARY", "Deleted", <<>>, total_deleted)

\* The paths a run reported as would-delete or tried to unlink, in order.
ActionPaths(o) ==
    LET acts == SelectSeq(o, LAMBDA l : l.tag \in {"DRY", "DEL", "ERR"})
    IN  [i \in 1..Len(acts) |-> acts[i].path]

\* What is remembered of a run that has ended.
Finished ==
    [ran |-> TRUE, dry_run |-> args.dry_run, recursive |-> args.recursive,
     root |-> args.root, paths |-> ActionPaths(out), count |-> out[Len(out)].n]

\* The tool is started: the arguments are parsed, the [INFO] lines printed and
\* the target directories gathered and sorted.
Start(root, dry_run, recursive, quiet) ==
    /\ pc \in {"idle", "done"}
    /\ runs < MaxRuns
    /\ runs' = runs + 1
    /\ prev' = IF pc = "done" THEN Finished ELSE prev
    /\ args' = [root |-> root, dry_run |-> dry_run, recursive |-> recursive,
                quiet |-> quiet]
    /\ out' = InfoLines(args')
    /\ dirs' = sorted(gather_target_dirs(root, recursive))
    /\ total_deleted' = 0
    /\ total_candidates' = 0
    /\ candidates' = <<>>
    /\ files0' = disk_files
    /\ attempts' = <<>>
    /\ classified' = <<>>
    /\ pc' = "loop"
    /\ UNCHANGED <<disk_dirs, disk_files, locked, scan_rev>>

\* for d in sorted(dirs): d has no questions directory.
SkipNoQuestions ==
    /\ pc = "loop"
    /\ candidates = <<>>
    /\ dirs # <<>>
    /\ ~is_dir(QDirOf(Head(dirs)))
    /\ dirs' = Tail(dirs)
    /\ UNCHANGED <<disk_dirs, disk_files, locked, scan_rev, args, pc, candidates,
                   total_deleted, total_candidates, out, files0, attempts,
                   classified, runs, prev>>

\* The visit printing [SKIP] without looking at --quiet.
VisitQuestions_loud ==
    /\ pc = "loop"
    /\ candidates = <<>>
    /\ dirs # <<>>
    /\ is_dir(QDirOf(Head(dirs)))
    /\ LET qdir == QDirOf(Head(dirs))
           found == find_candidate_deletions(qdir)
       IN  /\ candidates' = found
           /\ total_candidates' = total_candidates + Len(found)
           /\ classified' = Append(classified, qdir)
           /\ out' = IF found = <<>>
                     THEN Append(out, Line("SKIP", "no plain qN.tex files found", qdir, 0))
                     ELSE out
    /\ dirs' = Tail(dirs)
    /\ UNCHANGED <<disk_dirs, disk_files, locked, scan_rev, args, pc,
                   total_deleted, files0, attempts, runs, prev>>

\* for d in sorted(dirs): d has a questions directory, which is classified.
VisitQuestions ==
    /\ pc = "loop"
    /\ candidates = <<>>
    /\ dirs # <<>>
    /\ is_dir(QDirOf(Head(dirs)))
    /\ LET qdir == QDirOf(Head(dirs))
           found == find_candidate_deletions(qdir)
       IN  /\ candidates' = found
           /\ total_candidates' = total_candidates + Len(found)
           /\ classified' = Append(classified, qdir)
           /\ out' = IF found = <<>> /\ ~args.quiet
                     THEN Append(out, Line("SKIP", "no plain qN.tex files found", qdir, 0))
                     ELSE out
    /\ dirs' = Tail(dirs)
    /\ UNCHANGED <<disk_dirs, disk_files, locked, scan_rev, args, pc,
                   total_deleted, files0, attempts, runs, prev>>

\* The dry-run branch unlinking the file as well.
DryReport_unlinks ==
    /\ pc = "loop"
    /\ candidates # <<>>
    /\ args.dry_run
    /\ out' = Append(out, Line("DRY", "Would delete", Head(candidates), 0))
    /\ disk_files' = disk_files \ {Head(candidates)}
    /\ candidates' = Tail(candidates)
    /\ UNCHANGED <<disk_dirs, locked, scan_rev, args, pc, dirs,
                   total_deleted, total_candidates, files0, attempts, classified,
                   runs, prev>>

\* The dry-run branch leaving the loop after the first candidate of a directory.
DryReport_first ==
    /\ pc = "loop"
    /\ candidates # <<>>
    /\ args.dry_run
    /\ out' = Append(out, Line("DRY", "Would delete", Head(candidates), 0))
    /\ candidates' = <<>>
    /\ UNCHANGED <<disk_dirs, disk_files, locked, scan_rev, args, pc, dirs,
                   total_deleted, total_candidates, files0, attempts, classified,
                   runs, prev>>

\* for f in candidates, with --dry-run.
DryReport ==
    /\ pc = "loop"
    /\ candidates # <<>>
    /\ args.dry_run
    /\ out' = Append(out, Line("DRY", "Would delete", Head(candidates), 0))
    /\ candidates' = Tail(candidates)
    /\ UNCHANGED <<disk_dirs, disk_files, locked, scan_rev, args, pc, dirs,
                   total_deleted, total_candidates, files0, attempts, classified,
                   runs, prev>>

\* The live branch reporting a deletion without removing the file.
UnlinkDone_keeps ==
    /\ pc = "loop"
    /\ candidates # <<>>
    /\ ~args.dry_run
    /\ ~UnlinkRaises(Head(candidates))
    /\ attempts' = Append(attempts, Head(candidates))
    /\ out' = Append(out, Line("DEL", "Deleted", Head(candidates), 0))
    /\ total_deleted' = total_deleted + 1
    /\ candidates' = Tail(candidates)
    /\ UNCHANGED <<disk_dirs, disk_files, locked, scan_rev, args, pc, dirs,
                   total_candidates, files0, classified, runs, prev>>

\* for f in candidates, live: f.unlink() returns.
UnlinkDone ==
    /\ pc = "loop"
    /\ candidates # <<>>
    /\ ~args.dry_run
    /\ ~UnlinkRaises(Head(candidates))
    /\ disk_files' = disk_files \ {Head(candidates)}
    /\ attempts' = Append(attempts, Head(candidates))
    /\ out' = Append(out, Line("DEL", "Deleted", Head(candidates), 0))
    /\ total_deleted' = total_deleted + 1
    /\ candidates' = Tail(candidates)
    /\ UNCHANGED <<disk_dirs, locked, scan_rev, args, pc, dirs, total_candidates,
                   files0, classified, runs, prev>>

\* The handler counting the failed file as deleted.
UnlinkFailed_counts ==
    /\ pc = "loop"
    /\ candidates # <<>>
    /\ ~args.dry_run
    /\ UnlinkRaises(Head(candidates))
    /\ attempts' = Append(attempts, Head(candidates))
    /\ out' = Append(out, Line("ERR", "Could not delete", Head(candidates), 0))
    /\ total_deleted' = total_deleted + 1
    /\ candidates' = Tail(candidates)
    /\ UNCHANGED <<disk_dirs, disk_files, locked, scan_rev, args, pc, dirs,
                   total_candidates, files0, classified, runs, prev>>

\* for f in candidates, live: f.unlink() raises and the exception is caught.
UnlinkFailed ==
    /\ pc = "loop"
    /\ candidates # <<>>
    /\ ~args.dry_run
    /\ UnlinkRaises(Head(candidates))
    /\ attempts' = Append(attempts, Head(candidates))
    /\ out' = Append(out, Line("ERR", "Could not delete", Head(candidates), 0))
    /\ candidates' = Tail(candidates)
    /\ UNCHANGED <<disk_dirs, disk_files, locked, scan_rev, args, pc, dirs,
                   total_deleted, total_candidates, files0, classified, runs, prev>>

\* After the loop: the [SUMMARY] line, and the process ends.
Summary ==
    /\ pc = "loop"
    /\ candidates = <<>>
    /\ dirs = <<>>
    /\ out' = Append(out, SummaryLine)
    /\ pc' = "done"
    /\ UNCHANGED <<disk_dirs, disk_files, locked, scan_rev, args, dirs, candidates,
                   total_deleted, total_candidates, files0, attempts, classified,
                   runs, prev>>

Next ==
    \/ \E root \in Roots : \E dry_run, recursive, quiet \in BOOLEAN :
          Start(root, dry_run, recursive, quiet)
    \/ SkipNoQuestions
    \/ VisitQuestions
    \/ DryReport
    \/ UnlinkDone
    \/ UnlinkFailed
    \/ Summary

Spec == Init /\ [][Next]_vars

----------------------------------------------------------------------------
(* find_candidate_deletions on its own: one questions directory whose entries *)
(* carry names of every shape.                                                *)

\* The characters the digit part of a name is drawn from: a digit and a letter.
DigitAlphabet == {"1", "a"}

DigitParts == UNION {[1..k -> DigitAlphabet] : k \in 0..MaxDigits}

NameUniverse ==
    {<<"q">> \o d \o s \o dotTex : d \in DigitParts, s \in {<<>>, sufXm}}
    \cup {p \o <<"1">> \o s \o e :
            p \in {<<"q">>, <<"Q">>},
            s \in {<<>>, sufXm, sufSoln, <<"_", "x">>},
            e \in {dotTex, <<".", "t", "x", "t">>, dotTex \o <<"LF">>}}
    \cup {<<"q", "U+0663">> \o dotTex, <<"q", "1", "U+0663">> \o dotTex,
          <<"q", "U+0663">> \o sufSoln \o dotTex}

NoName == <<>>

ClassifyDir == QDirOf(RootDir)

InitClassify ==
    /\ \E pick \in [1..MaxEntries -> NameUniverse \cup {NoName}] :
          disk_files = {ClassifyDir \o <<pick[i]>> : i \in {j \in 1..MaxEntries : pick[j] # NoName}}
    /\ disk_dirs = Prefixes(ClassifyDir)
    /\ locked = {}
    /\ scan_rev \in BOOLEAN
    /\ args = NoArgs
    /\ pc = "classify"
    /\ dirs = <<>>
    /\ candidates = <<>>
    /\ total_deleted = 0
    /\ total_candidates = 0
    /\ out = <<>>
    /\ files0 = disk_files
    /\ attempts = <<>>
    /\ classified = <<>>
    /\ runs = 0
    /\ prev = NoRun

\* A call of find_candidate_deletions(questions_dir).
Classify ==
    /\ pc = "classify"
    /\ candidates' = find_candidate_deletions(ClassifyDir)
    /\ classified' = <<ClassifyDir>>
    /\ pc' = "classified"
    /\ UNCHANGED <<disk_dirs, disk_files, locked, scan_rev, args, dirs,
                   total_deleted, total_candidates, out, files0, attempts, runs, prev>>

NextClassify == Classify

SpecClassify == InitClassify /\ [][NextClassify]_vars

----------------------------------------------------------------------------
(* What the properties speak of *)

Range(s) == {s[i] : i \in 1..Len(s)}

NoRepeat(s) == \A i, j \in 1..Len(s) : i # j => s[i] # s[j]

TagCount(tag) == Cardinality({i \in 1..Len(out) : out[i].tag = tag})

Running == pc \in {"loop", "done"}

\* A name of the shape q<one or more digits>.tex.
IsPlainName(n) ==
    /\ Len(n) >= 2 + Len(dotTex)
    /\ n[1] = "q"
    /\ SubSeq(n, Len(n) - Len(dotTex) + 1, Len(n)) = dotTex
    /\ \A i \in 2..(Len(n) - Len(dotTex)) : n[i] \in DecimalDigits

\* A name of the shape q<one or more digits>_xm.tex or q<one or more digits>_soln.tex.
IsProtectedName(n) ==
    \E suf \in {sufXm, sufSoln} :
        /\ Len(n) >= 2 + Len(suf) + Len(dotTex)
        /\ n[1] = "q"
        /\ SubSeq(n, Len(n) - Len(suf) - Len(dotTex) + 1, Len(n)) = suf \o dotTex
        /\ \A i \in 2..(Len(n) - Len(suf) - Len(dotTex)) : n[i] \in DecimalDigits

IsPrefix(r, p) == Len(r) <= Len(p) /\ SubSeq(p, 1, Len(r)) = r

\* p lies below a directory (itself below root) whose base name is ignored.
BeneathIgnored(p) ==
    \E k \in (Len(args.root) + 1)..(Len(p) - 1) : p[k] \in IGNORE_DIRS

\* The entries on disk when the run started.
Entries0 == disk_dirs \cup files0

\* The entries with a plain name that were directly inside the directories of Q.
PlainIn(Q) == {p \in Entries0 : Len(p) >= 1 /\ Parent(p) \in Q /\ IsPlainName(Name(p))}

----------------------------------------------------------------------------
(* The properties *)

\* C1: in both traversal modes nothing in or below a directory named xmScripts,
\* .vscode or .git is inspected: no questions directory below an ignored
\* directory is classified, and no file below one is reported or deleted.
C1_IgnoredSubtreesUntouched ==
    Running =>
        /\ \A i \in 1..Len(classified) : ~BeneathIgnored(classified[i])
        /\ \A i \in 1..Len(out) :
              out[i].tag \in {"DRY", "DEL", "ERR"} => ~BeneathIgnored(out[i].path)
        /\ \A p \in files0 \ disk_files : ~BeneathIgnored(p)

\* C2: find_candidate_deletions returns exactly the entries directly inside
\* questions_dir whose name is q<digits>.tex, each once; a protected entry and
\* an entry of neither shape is never returned.
C2_ExactlyPlainEntries ==
    pc = "classified" =>
        /\ Range(candidates) = PlainIn({ClassifyDir})
        /\ NoRepeat(candidates)
        /\ \A p \in iterdir(ClassifyDir) :
              (IsProtectedName(Name(p)) \/ ~IsPlainName(Name(p)))
                  => p \notin Range(candidates)

C2_Witness ==
    /\ pc = "classified"
    /\ candidates # <<>>
    /\ \E p \in iterdir(ClassifyDir) : IsProtectedName(Name(p))

\* C3: during and after a dry-run the files on disk are those of before the
\* run, unlink is never called and total_deleted stays 0.
C3_DryRunChangesNothing ==
    (Running /\ args.dry_run) =>
        /\ disk_files = files0
        /\ attempts = <<>>
        /\ total_deleted = 0
        /\ TagCount("DEL") = 0

C3_Witness ==
    /\ pc = "done"
    /\ args.dry_run
    /\ TagCount("DRY") >= 2

\* C4: a live run removes only files named q<digits>.tex directly inside the
\* questions directory of a gathered target directory, so every protected file,
\* every file of neither shape and every file elsewhere stays; when no deletion
\* failed, the removed files are exactly the plain entries of those directories.
C4_LiveRemovesOnlyPlain ==
    (Running /\ ~args.dry_run) =>
        /\ disk_files \subseteq files0
        /\ \A p \in files0 \ disk_files :
              /\ IsPlainName(Name(p))
              /\ ~IsProtectedName(Name(p))
              /\ Name(Parent(p)) = nQuestions
              /\ Parent(Parent(p)) \in gather_target_dirs(args.root, args.recursive)
        /\ (pc = "done" /\ TagCount("ERR") = 0) =>
              files0 \ disk_files =
                  PlainIn({QDirOf(d) : d \in gather_target_dirs(args.root, args.recursive)})

C4_Witness ==
    /\ pc = "done"
    /\ ~args.dry_run
    /\ TagCount("ERR") = 0
    /\ files0 \ disk_files = {QDirOf(<<nA>>) \o <<fQ1>>, QDirOf(<<nA>>) \o <<fQ2>>}
    /\ {QDirOf(<<nA>>) \o <<fQ1xm>>, QDirOf(<<nA>>) \o <<fQ1soln>>} \subseteq disk_files
    /\ out[Len(out)].n = 2

\* C5: a live run that follows a live run on the same root with the same
\* --recursive deletes nothing, and its summary count is 0.
C5_SecondLiveRunDeletesNothing ==
    (/\ pc = "done"
     /\ prev.ran
     /\ ~prev.dry_run
     /\ ~args.dry_run
     /\ prev.root = args.root
     /\ prev.recursive = args.recursive) =>
        /\ total_deleted = 0
        /\ TagCount("DEL") = 0
        /\ disk_files = files0
        /\ out[Len(out)].tag = "SUMMARY"
        /\ out[Len(out)].n = 0

C5_Witness ==
    /\ pc = "done"
    /\ prev.ran
    /\ ~prev.dry_run
    /\ ~args.dry_run
    /\ prev.root = args.root
    /\ prev.recursive = args.recursive
    /\ prev.count > 0
    /\ total_candidates > 0

\* C6 as stated: with --quiet no [INFO], [SKIP], [DRY] or [DEL] line is
\* printed, and the [SUMMARY] line is printed once.
C6_QuietOnlySummary ==
    (Running /\ args.quiet) =>
        /\ \A i \in 1..Len(out) : out[i].tag \notin {"INFO", "SKIP", "DRY", "DEL"}
        /\ pc = "done" => TagCount("SUMMARY") = 1

\* C6 amended: with --quiet no [INFO] and no [SKIP] line is printed, in dry-run
\* and in live mode; the per-file [DRY], [DEL] and [ERR] lines are printed as
\* without --quiet, one for each candidate; the [SUMMARY] line is printed once,
\* as the last line.
C6_QuietNoInfoNoSkip ==
    (Running /\ args.quiet) =>
        /\ \A i \in 1..Len(out) : out[i].tag \notin {"INFO", "SKIP"}
        /\ pc = "done" =>
              /\ TagCount("SUMMARY") = 1
              /\ out[Len(out)].tag = "SUMMARY"
              /\ TagCount("DRY") + TagCount("DEL") + TagCount("ERR") = total_candidates
              /\ Len(out) = total_candidates + 1

C6_Witness ==
    /\ pc = "done"
    /\ args.quiet
    /\ TagCount("DRY") + TagCount("DEL") > 0
    /\ \E i \in 1..Len(classified) : PlainIn({classified[i]}) = {}

\* The questions directories in scope: children of the children of root whose
\* base name is not ignored, or, with --recursive, children of the directories
\* at any depth below root whose base name is not ignored.
ScopeQDirs(root, recursive) ==
    {q \in disk_dirs :
        /\ Len(q) >= Len(root) + 2
        /\ recursive \/ Len(q) = Len(root) + 2
        /\ IsPrefix(root, q)
        /\ Name(q) = nQuestions
        /\ Name(Parent(q)) \notin IGNORE_DIRS}

\* C7: the questions directories a run processes are exactly those in scope,
\* each once; root is no target, so root/questions is never classified and none
\* of its files is reported or unlinked.
C7_TraversalScope ==
    Running =>
        /\ Range(classified) \subseteq ScopeQDirs(args.root, args.recursive)
        /\ NoRepeat(classified)
        /\ pc = "done" => Range(classified) = ScopeQDirs(args.root, args.recursive)
        /\ QDirOf(args.root) \notin Range(classified)
        /\ \A p \in Range(ActionPaths(out)) : Parent(p) # QDirOf(args.root)
        /\ \A p \in files0 \ disk_files : Parent(p) # QDirOf(args.root)

C7_Witness ==
    /\ pc = "done"
    /\ ~args.dry_run
    /\ ~args.recursive
    /\ QDirOf(<<nA, nB>>) \in disk_dirs
    /\ QDirOf(<<nA, nB>>) \o <<fQ2>> \in disk_files
    /\ QDirOf(<<nA>>) \o <<fQ1>> \in files0 \ disk_files
    /\ Range(classified) = {QDirOf(<<nA>>)}

\* What C8 says of every state of a live run.
LiveRunState ==
    (runs > 0 /\ ~args.dry_run) =>
        /\ Running
        /\ ActionPaths(out) = attempts
        /\ NoRepeat(attempts)
        /\ \A i \in 1..Len(out) :
              /\ out[i].tag = "ERR" => out[i].path \in Entries
              /\ out[i].tag = "DEL" => out[i].path \in files0 \ disk_files
        /\ total_deleted = TagCount("DEL")
        /\ TagCount("DEL") + TagCount("ERR") = Len(attempts)
        /\ pc = "done" =>
              /\ out[Len(out)].tag = "SUMMARY"
              /\ Len(attempts) = total_candidates
              /\ Range(attempts) = PlainIn(Range(classified))

\* What C8 says of every step of the loop: it ends the run with the summary, or
\* it leaves fewer directories to visit, or as many and fewer candidates.
LoopStepAdvances ==
    pc = "loop" =>
        \/ pc' = "done" /\ out'[Len(out')].tag = "SUMMARY"
        \/ /\ pc' = "loop"
           /\ \/ Len(dirs') < Len(dirs)
              \/ Len(dirs') = Len(dirs) /\ Len(candidates') < Len(candidates)

\* C8: in live mode a failed unlink leaves an [ERR] line for the file, is not
\* counted and not repeated, and the run goes on: every step of the loop, a
\* failed unlink too, leaves less to do or prints the summary, and at the end
\* every candidate of every classified directory has been tried exactly once.
C8_FailureNotFatal == [](LiveRunState) /\ [][LoopStepAdvances]_vars

C8_Witness ==
    /\ pc = "done"
    /\ ~args.dry_run
    /\ \E i, j, k \in 1..Len(out) :
          /\ i < j
          /\ j < k
          /\ out[i].tag = "ERR"
          /\ out[j].tag = "DEL"
          /\ out[k].tag = "DEL"
          /\ Parent(out[i].path) = Parent(out[j].path)
          /\ Parent(out[i].path) # Parent(out[k].path)

\* C9: the [SUMMARY] line is printed once, after all directories; live, its
\* count is the number of [DEL] lines, at most the number of candidates and
\* less when an unlink failed; in a dry-run it is the number of candidates of
\* all classified directories, which is the number of [DRY] lines.
C9_SummaryCount ==
    /\ pc = "loop" => TagCount("SUMMARY") = 0
    /\ pc = "done" =>
          /\ TagCount("SUMMARY") = 1
          /\ out[Len(out)].tag = "SUMMARY"
          /\ dirs = <<>> /\ candidates = <<>>
          /\ ~args.dry_run =>
                /\ out[Len(out)].n = TagCount("DEL")
                /\ out[Len(out)].n = Cardinality(files0 \ disk_files)
                /\ out[Len(out)].n <= total_candidates
                /\ TagCount("ERR") > 0 => out[Len(out)].n < total_candidates
          /\ args.dry_run =>
                /\ out[Len(out)].n = TagCount("DRY")
                /\ out[Len(out)].n = total_candidates
                /\ out[Len(out)].n = Cardinality(PlainIn(Range(classified)))

C9_Witness ==
    /\ pc = "done"
    /\ ~args.dry_run
    /\ TagCount("ERR") > 0
    /\ out[Len(out)].n > 0

\* C10: a live run that follows a dry-run on the same root with the same
\* --recursive (whatever --quiet was in either run) tries to unlink the paths
\* the dry-run reported, in the same order; when no unlink failed, its summary
\* count is the dry-run's.
C10_DryRunPreviewsLive ==
    (/\ pc = "done"
     /\ prev.ran
     /\ prev.dry_run
     /\ ~args.dry_run
     /\ prev.root = args.root
     /\ prev.recursive = args.recursive) =>
        /\ attempts = prev.paths
        /\ TagCount("ERR") = 0 => out[Len(out)].n = prev.count

C10_Witness ==
    /\ pc = "done"
    /\ prev.ran
    /\ prev.dry_run
    /\ ~args.dry_run
    /\ prev.root = args.root
    /\ prev.recursive = args.recursive
    /\ args.quiet
    /\ TagCount("ERR") = 0
    /\ Len(attempts) >= 4
    /\ \E i, j \in 1..Len(attempts) : Parent(attempts[i]) # Parent(attempts[j])

====
